---- MODULE Spec2Model ----
(***************************************************************************)
(* A model of skimpy's KineticModel (core/kinmodel.py), of its integration *)
(* loop, and of the two mechanisms BiUniReversibleHill and the generated   *)
(* ConvenienceInhibited (mechanisms/).                                     *)
(*                                                                         *)
(* Four specifications share the module:                                   *)
(*   Spec        KineticModel: add_reaction, add_boundary, solve_ode,      *)
(*               make_ode_fun and the module-level integration loop        *)
(*   SpecLoop    the integration loop against every integrator behaviour   *)
(*   SpecMech    one mechanism instance: get_/update_qssa_rate_expression  *)
(*   SpecFactory make_convenience_with_inhibition and the subclass registry*)
(*                                                                         *)
(* Symbolic expressions are modelled by their value at a sample point:     *)
(* an integer for the abstract rate contributions of the KineticModel, a   *)
(* reduced fraction <<n, d>> for the rate laws of the mechanisms.          *)
(***************************************************************************)
EXTENDS Integers, Sequences, FiniteSets, TLC

VARIABLES
    \* ---- KineticModel (kinmodel.py) ----
    reactions,      \* self.reactions: insertion-ordered, name-keyed
    boundaries,     \* self.boundaries: ordered boundary callables
    _modifed,       \* self._modifed
    ode_fun,        \* self.ode_fun, NoAttr while the attribute does not exist
    solver,         \* self.solver, NoAttr while the attribute does not exist
    nbuilds,        \* number of ODEFunction objects constructed (object identity)
    bcalls,         \* calls received by the boundary callables in the latest build
    \* ---- module function solve_ode (kinmodel.py:169) ----
    pc,             \* "idle" or "loop": position of the running solve_ode call
    time_int,       \* argument time_int = <<t0, t1>>
    t_sol, y_sol,   \* the locals t_sol, y_sol
    \* ---- mechanism instance (mechanisms/*.py) ----
    mech,           \* class data of the instance: kind, roles, stoichiometry, links
    reactants,      \* self.reactants: role -> symbol
    inhibitors,     \* self.inhibitors: role -> symbol
    parameters,     \* self.parameters: parameter name -> value
    conc,           \* the sample point: symbol -> value
    reaction_rates, \* self.reaction_rates, NoAttr before get_qssa_rate_expression
    expressions,    \* self.expressions, NoAttr before get_qssa_rate_expression
    \* ---- make_convenience_with_inhibition ----
    subclasses,     \* KineticMechanism.__subclasses__(): the classes created so far
    made,           \* what the calls of the factory returned: {<<arguments, class id>>}
    \* ---- the caller ----
    ret             \* the last call made, with what it returned or raised

kmvars   == <<reactions, boundaries, _modifed, ode_fun, solver, nbuilds, bcalls,
              pc, time_int, t_sol, y_sol>>
mechvars == <<mech, reactants, inhibitors, parameters, conc, reaction_rates,
              expressions>>
facvars  == <<subclasses, made>>
vars     == <<kmvars, mechvars, facvars, ret>>

\* an attribute that does not exist (hasattr is false), a method that raises
NoAttr == [absent |-> TRUE]
\* Python's None, and "no exception"
None == "None"

-----------------------------------------------------------------------------
(* Bounds *)
\* reactions in one model
MaxReactions == 2
\* boundaries in one model
MaxBoundaries == 2
\* ODEFunction objects constructed in one behaviour
MaxBuilds == 2
\* largest end time time_int[1]
MaxT1 == 2
\* largest advance of solver.t in one integrate call
MaxDt == 2
\* state values are 0..MaxY
MaxY == 1

-----------------------------------------------------------------------------
(* Dictionaries are functions; d1 @@ d2 and key :> val come from TLC.      *)

Keys(d) == DOMAIN d

EmptyDict == <<>>

Range(s) == {s[i] : i \in 1..Len(s)}

-----------------------------------------------------------------------------
(* Exact fractions <<n, d>>, d > 0, in lowest terms: the value of a        *)
(* symbolic expression at a sample point.                                  *)

Abs(n) == IF n < 0 THEN -n ELSE n

RECURSIVE GCD(_, _)
GCD(a, b) == IF b = 0 THEN a ELSE GCD(b, a % b)

Frac(n, d) ==
    LET g == GCD(Abs(n), Abs(d))
        sgn == IF d < 0 THEN -1 ELSE 1
    IN  <<sgn * (n \div g), sgn * (d \div g)>>

F(n) == <<n, 1>>
FAdd(a, b) == Frac(a[1] * b[2] + b[1] * a[2], a[2] * b[2])
FSub(a, b) == Frac(a[1] * b[2] - b[1] * a[2], a[2] * b[2])
FMul(a, b) == Frac(a[1] * b[1], a[2] * b[2])
FDiv(a, b) == Frac(a[1] * b[2], a[2] * b[1])

\* a ** k for an integer k, negative included
RECURSIVE FPow(_, _)
FPow(a, k) ==
    IF k = 0 THEN F(1)
    ELSE IF k < 0 THEN FDiv(F(1), FPow(a, -k))
    ELSE FMul(a, FPow(a, k - 1))

-----------------------------------------------------------------------------
(* The reactions a caller may add.  mechanism.get_qssa_rate_expression()   *)
(* is used by make_ode_fun as returning the pair (expressions, parameters) *)
(* (kinmodel.py:112 and :124); qssa, full and params are that pair for the *)
(* two simulation types.  full = NoAttr: get_full_rate_expression raises   *)
(* NotImplementedError.                                                    *)
Species == {"A", "B", "C", "ES"}

ReactionPool ==
    { [name |-> "r1", qssa |-> ("A" :> -1) @@ ("B" :> 1),
       full |-> ("A" :> -1) @@ ("ES" :> 1), params |-> {"k1"}],
      [name |-> "r1", qssa |-> ("A" :> -2) @@ ("B" :> 2),
       full |-> NoAttr, params |-> {"k1b"}],
      [name |-> "r2", qssa |-> ("B" :> -1) @@ ("C" :> 1),
       full |-> ("B" :> -1) @@ ("ES" :> 1), params |-> {"k2"}],
      [name |-> "r3", qssa |-> ("C" :> -1) @@ ("B" :> 3),
       full |-> NoAttr, params |-> {"k3", "k1"}] }

SimTypes == {"QSSA", "tQSSA", "full", "other"}

(* The boundary callables a caller may register: each mutates the mapping  *)
(* it is given.  "zeroB" pins the rate of B to 0, "incB" adds an inflow of *)
(* 1 to B, "dblAll" doubles every entry.                                   *)
BoundaryPool == {"zeroB", "incB", "dblAll"}

CallBoundary(b, expr) ==
    CASE b = "zeroB"  -> [v \in Keys(expr) |-> IF v = "B" THEN 0 ELSE expr[v]]
      [] b = "incB"   -> [v \in Keys(expr) |-> IF v = "B" THEN expr[v] + 1 ELSE expr[v]]
      [] b = "dblAll" -> [v \in Keys(expr) |-> 2 * expr[v]]

-----------------------------------------------------------------------------
(* KineticModel.make_ode_fun (kinmodel.py:108-151)                         *)

\* kinmodel.py:111-122: the expression data of one reaction for sim_type;
\* NoAttr when the call raises
RateData(r, sim_type) ==
    CASE sim_type = "QSSA" -> [expr |-> r.qssa, params |-> r.params]
      [] sim_type = "full" -> IF r.full = NoAttr THEN NoAttr
                              ELSE [expr |-> r.full, params |-> r.params]
      [] OTHER -> NoAttr

\* kinmodel.py:132: one dictionary out of the reactions' parameter dictionaries
RECURSIVE join_dicts(_)
join_dicts(all_param) ==
    IF all_param = <<>> THEN {}
    ELSE Head(all_param) \cup join_dicts(Tail(all_param))

\* kinmodel.py:130-135: the distinct keys of all the expression dictionaries
RECURSIVE Variables(_)
Variables(all_expr) ==
    IF all_expr = <<>> THEN {}
    ELSE Keys(Head(all_expr)) \cup Variables(Tail(all_expr))

\* kinmodel.py:142-143: expr[key] += this_reaction[key] for every key
AddReactionTo_Overwrite(expr, this_reaction) ==
    [v \in Keys(expr) |->
        IF v \in Keys(this_reaction) THEN this_reaction[v] ELSE expr[v]]

AddReactionTo(expr, this_reaction) ==
    [v \in Keys(expr) |->
        IF v \in Keys(this_reaction) THEN expr[v] + this_reaction[v] ELSE expr[v]]

\* kinmodel.py:137-143: mass balance, starting from dict.fromkeys(variables, 0.0)
RECURSIVE SumUp(_, _)
SumUp(expr, all_expr) ==
    IF all_expr = <<>> THEN expr
    ELSE SumUp(AddReactionTo(expr, Head(all_expr)), Tail(all_expr))

MassBalance(all_expr) ==
    SumUp([v \in Variables(all_expr) |-> 0], all_expr)

\* kinmodel.py:147-148: every boundary acts on expr, in the order of
\* self.boundaries; the result is the final expr and the calls made
RECURSIVE ApplyBoundaries_Reversed(_, _, _)
ApplyBoundaries_Reversed(expr, bs, calls) ==
    IF bs = <<>> THEN [expr |-> expr, calls |-> calls]
    ELSE LET last == bs[Len(bs)]
         IN  ApplyBoundaries_Reversed(CallBoundary(last, expr),
                                      SubSeq(bs, 1, Len(bs) - 1),
                                      Append(calls, [boundary |-> last, arg |-> expr]))

RECURSIVE ApplyBoundaries(_, _, _)
ApplyBoundaries(expr, bs, calls) ==
    IF bs = <<>> THEN [expr |-> expr, calls |-> calls]
    ELSE ApplyBoundaries(CallBoundary(Head(bs), expr), Tail(bs),
                         Append(calls, [boundary |-> Head(bs), arg |-> expr]))

\* the whole of make_ode_fun: [raised |-> exception] or
\* [raised |-> None, variables, expr, all_param, calls]
make_ode_fun(sim_type, rs, bs) ==
    LET all_data == [i \in 1..Len(rs) |-> RateData(rs[i], sim_type)]
        all_expr == [i \in 1..Len(rs) |-> all_data[i].expr]
        all_param == [i \in 1..Len(rs) |-> all_data[i].params]
        bound == ApplyBoundaries(MassBalance(all_expr), bs, <<>>)
    IN  IF sim_type = "tQSSA" THEN
            \* kinmodel.py:116
            [raised |-> "NotImplementedError"]
        ELSE IF sim_type \notin {"QSSA", "full"} THEN
            \* kinmodel.py:124: all_data was never assigned
            [raised |-> "UnboundLocalError"]
        ELSE IF \E i \in 1..Len(rs) : all_data[i] = NoAttr THEN
            \* kinmodel.py:121: get_full_rate_expression of a mechanism without one
            [raised |-> "NotImplementedError"]
        ELSE IF rs = <<>> THEN
            \* kinmodel.py:124: zip(*[]) yields nothing to unpack
            [raised |-> "ValueError"]
        ELSE
            [raised |-> None,
             variables |-> Variables(all_expr),
             expr |-> bound.expr,
             all_param |-> join_dicts(all_param),
             calls |-> bound.calls]

-----------------------------------------------------------------------------
(* KineticModel operations.  A call that raises leaves the object as the   *)
(* code left it at the raise and records the exception in ret.             *)

Idle == pc = "idle"

Returned(op, arg, val) == [op |-> op, arg |-> arg, out |-> "return", val |-> val]
Raised(op, arg, exc)   == [op |-> op, arg |-> arg, out |-> "raise", val |-> exc]

HasReaction(rs, name) == \E i \in 1..Len(rs) : rs[i].name = name

\* kinmodel.py:59-70
add_reaction_NoCheck(reaction) ==
    /\ Idle
    /\ IF HasReaction(reactions, reaction.name)
       THEN reactions' = [i \in 1..Len(reactions) |->
                            IF reactions[i].name = reaction.name THEN reaction
                            ELSE reactions[i]]
       ELSE /\ Len(reactions) < MaxReactions
            /\ reactions' = Append(reactions, reaction)
    /\ _modifed' = TRUE
    /\ ret' = Returned("add_reaction", reaction, None)
    /\ UNCHANGED <<boundaries, ode_fun, solver, nbuilds, bcalls,
                   pc, time_int, t_sol, y_sol>>

add_reaction(reaction) ==
    /\ Idle
    /\ IF HasReaction(reactions, reaction.name)
       THEN /\ ret' = Raised("add_reaction", reaction, "Exception")
            /\ UNCHANGED <<reactions, _modifed>>
       ELSE /\ Len(reactions) < MaxReactions
            /\ reactions' = Append(reactions, reaction)
            /\ _modifed' = TRUE
            /\ ret' = Returned("add_reaction", reaction, None)
    /\ UNCHANGED <<boundaries, ode_fun, solver, nbuilds, bcalls,
                   pc, time_int, t_sol, y_sol>>

\* kinmodel.py:83-85
add_boundary(boundary) ==
    /\ Idle
    /\ Len(boundaries) < MaxBoundaries
    /\ boundaries' = Append(boundaries, boundary)
    /\ ret' = Returned("add_boundary", boundary, None)
    /\ UNCHANGED <<reactions, _modifed, ode_fun, solver, nbuilds, bcalls,
                   pc, time_int, t_sol, y_sol>>

\* a solve_ode that builds the evaluator on every call
NeedsBuild_Always(modified, fun) == TRUE

\* kinmodel.py:96: the condition under which solve_ode builds the evaluator
NeedsBuild(modified, fun) == modified /\ fun = NoAttr

\* kinmodel.py:154-167 and :171: a fresh integrator over ode_fun, set to the
\* initial value
get_ode_solver(fun, t0, y0) == [f |-> fun, t |-> t0, y |-> y0, ok |-> TRUE]

\* kinmodel.py:87-104 and 171-174: KineticModel.solve_ode up to the first test
\* of the integration loop
solve_ode_begin(sim_type, t1, y0) ==
    LET arg   == [sim_type |-> sim_type, time_int |-> <<0, t1>>, y0 |-> y0]
        built == make_ode_fun(sim_type, reactions, boundaries)
    IN
    /\ Idle
    /\ IF NeedsBuild(_modifed, ode_fun)
       THEN IF built.raised # None
            THEN /\ ret' = Raised("solve_ode", arg, built.raised)
                 /\ UNCHANGED <<ode_fun, _modifed, solver, nbuilds, bcalls,
                                pc, time_int, t_sol, y_sol>>
            ELSE /\ nbuilds < MaxBuilds
                 /\ nbuilds' = nbuilds + 1
                 /\ ode_fun' = [id |-> nbuilds + 1,
                                variables |-> built.variables,
                                expr |-> built.expr,
                                all_param |-> built.all_param]
                 /\ bcalls' = built.calls
                 /\ _modifed' = FALSE
                 /\ solver' = get_ode_solver(ode_fun', 0, y0)
                 /\ pc' = "loop"
                 /\ time_int' = <<0, t1>>
                 /\ t_sol' = <<0>>
                 /\ y_sol' = <<y0>>
                 /\ ret' = [op |-> "solve_ode", arg |-> arg, out |-> "running",
                            val |-> None]
       ELSE IF ode_fun = NoAttr
            THEN \* kinmodel.py:101: self.ode_fun does not exist
                 /\ ret' = Raised("solve_ode", arg, "AttributeError")
                 /\ UNCHANGED <<ode_fun, _modifed, solver, nbuilds, bcalls,
                                pc, time_int, t_sol, y_sol>>
            ELSE /\ solver' = get_ode_solver(ode_fun, 0, y0)
                 /\ pc' = "loop"
                 /\ time_int' = <<0, t1>>
                 /\ t_sol' = <<0>>
                 /\ y_sol' = <<y0>>
                 /\ ret' = [op |-> "solve_ode", arg |-> arg, out |-> "running",
                            val |-> None]
                 /\ UNCHANGED <<ode_fun, _modifed, nbuilds, bcalls>>
    /\ UNCHANGED <<reactions, boundaries>>

\* kinmodel.py:176: the loop test
LoopCond(s, tint) == s.t <= tint[2] /\ s.ok

\* kinmodel.py:177-179: one integrate(t1, step=True) call of the integrator,
\* which advances by dt, reports y and succeeds or fails, and the two appends
loop_iteration(dt, y, ok) ==
    /\ pc = "loop"
    /\ LoopCond(solver, time_int)
    /\ solver' = [solver EXCEPT !.t = @ + dt, !.y = y, !.ok = ok]
    /\ t_sol' = Append(t_sol, solver'.t)
    /\ y_sol' = Append(y_sol, solver'.y)
    /\ UNCHANGED <<reactions, boundaries, _modifed, ode_fun, nbuilds, bcalls,
                   pc, time_int, ret>>

\* kinmodel.py:181 and :106: the loop test fails, solve_ode returns t_sol, y_sol
\* and KineticModel.solve_ode returns Solution(self, t_sol, y_sol)
Solution(ts, ys) == [t_sol |-> ts, y_sol |-> ys]

loop_exit ==
    /\ pc = "loop"
    /\ ~LoopCond(solver, time_int)
    /\ ret' = Returned("solve_ode", ret.arg, Solution(t_sol, y_sol))
    /\ pc' = "idle"
    /\ t_sol' = <<>>
    /\ y_sol' = <<>>
    /\ UNCHANGED <<reactions, boundaries, _modifed, ode_fun, solver, nbuilds,
                   bcalls, time_int>>

\* kinmodel.py:44-52: KineticModel(reactions, boundaries)
KMInit(rs, bs) ==
    /\ reactions = rs
    /\ boundaries = bs
    /\ _modifed = TRUE
    /\ ode_fun = NoAttr
    /\ solver = NoAttr
    /\ nbuilds = 0
    /\ bcalls = <<>>
    /\ pc = "idle"
    /\ time_int = <<0, 0>>
    /\ t_sol = <<>>
    /\ y_sol = <<>>
    /\ ret = Returned("__init__", None, None)

-----------------------------------------------------------------------------
(* Mechanisms.  A role or parameter name such as 'km_substrate2' is the    *)
(* pair <<"km_substrate", 2>>; a name without a number ('product') has 0.  *)
(* A dictionary whose order of insertion matters is a sequence of          *)
(* <<key, value>> pairs.                                                   *)

Symbols == {"A", "B", "C"}

\* k.startswith('substrate'), k.startswith('product'), k.startswith('inhibitor')
StartsWith(role, prefix) == role[1] = prefix

\* the roles of a list that start with prefix, in the order of the list
RECURSIVE Select(_, _)
Select(list, prefix) ==
    IF list = <<>> THEN <<>>
    ELSE IF StartsWith(Head(list), prefix)
         THEN <<Head(list)>> \o Select(Tail(list), prefix)
         ELSE Select(Tail(list), prefix)

\* bi_uni_reversible_hill.py:49-76: the class attributes of BiUniReversibleHill
BiUniReversibleHill ==
    [kind |-> "BiUniReversibleHill",
     reactant_list |-> << <<"substrate", 1>>, <<"substrate", 2>>, <<"product", 0>> >>,
     inhibitor_list |-> <<>>,
     parameter_list |-> { <<"vmax_forward", 0>>, <<"k_equilibrium", 0>>,
                          <<"hill_coefficient", 0>>, <<"km_substrate", 1>>,
                          <<"km_substrate", 2>>, <<"km_product", 0>>,
                          <<"vmax_backward", 0>> },
     reactant_stoichiometry |-> (<<"substrate", 1>> :> -1) @@ (<<"substrate", 2>> :> -1)
                                @@ (<<"product", 0>> :> 1),
     parameter_reactant_links |-> << << <<"km_substrate", 1>>, <<"substrate", 1>> >>,
                                     << <<"km_substrate", 2>>, <<"substrate", 2>> >>,
                                     << <<"km_product", 0>>, <<"product", 0>> >> >>]

\* convenience_with_inihibition.py:68-97: the loop over stoichiometry in the
\* class body, from position i with the counters num_substrates, num_products
RECURSIVE ReactantRoles(_, _, _, _, _)
ReactantRoles(stoichiometry, i, num_substrates, num_products, c) ==
    IF i > Len(stoichiometry) THEN c
    ELSE LET s == stoichiometry[i]
             substrate == <<"substrate", num_substrates>>
             product == <<"product", num_products>>
         IN  IF s < 0 THEN
                 ReactantRoles(stoichiometry, i + 1, num_substrates + 1, num_products,
                     [c EXCEPT
                        !.reactant_list = Append(@, substrate),
                        !.parameter_list = @ \cup {<<"km_substrate", num_substrates>>},
                        !.parameter_reactant_links =
                            Append(@, << <<"km_substrate", num_substrates>>, substrate >>),
                        !.reactant_stoichiometry = @ @@ (substrate :> s)])
             ELSE IF s > 0 THEN
                 ReactantRoles(stoichiometry, i + 1, num_substrates, num_products + 1,
                     [c EXCEPT
                        !.reactant_list = Append(@, product),
                        !.parameter_list = @ \cup {<<"km_product", num_products>>},
                        !.parameter_reactant_links =
                            Append(@, << <<"km_product", num_products>>, product >>),
                        !.reactant_stoichiometry = @ @@ (product :> s)])
             ELSE ReactantRoles(stoichiometry, i + 1, num_substrates, num_products, c)

\* convenience_with_inihibition.py:99-106: the loop over inihbitor_stoichiometry
RECURSIVE InhibitorRoles(_, _, _)
InhibitorRoles(inihbitor_stoichiometry, num_inhibitors, c) ==
    IF num_inhibitors > Len(inihbitor_stoichiometry) THEN c
    ELSE LET inhibitor == <<"inhibitor", num_inhibitors>>
             ki_inhibitor == <<"ki_inhibitor", num_inhibitors>>
         IN  InhibitorRoles(inihbitor_stoichiometry, num_inhibitors + 1,
                 [c EXCEPT
                    !.inhibitor_list = Append(@, inhibitor),
                    !.parameter_list = @ \cup {ki_inhibitor},
                    !.parameter_reactant_links = Append(@, <<ki_inhibitor, inhibitor>>)])

\* convenience_with_inihibition.py:56-114: the class attributes of the
\* ConvenienceInhibited generated for a stoichiometry
ConvenienceInhibited(stoichiometry, inihbitor_stoichiometry) ==
    InhibitorRoles(inihbitor_stoichiometry, 1,
        ReactantRoles(stoichiometry, 1, 1, 1,
            [kind |-> "ConvenienceInhibited",
             reactant_list |-> <<>>,
             inhibitor_list |-> <<>>,
             parameter_list |-> {<<"vmax_forward", 0>>, <<"k_equilibrium", 0>>},
             reactant_stoichiometry |-> <<>>,
             parameter_reactant_links |-> <<>>]))

\* the value of a dictionary given as a sequence of <<key, value>> pairs: the
\* pair inserted last wins
Lookup(pairs, key) ==
    LET last == CHOOSE i \in 1..Len(pairs) :
                    /\ pairs[i][1] = key
                    /\ \A j \in (i + 1)..Len(pairs) : pairs[j][1] # key
    IN  pairs[last][2]

\* the value of the symbol of a reactant and of a parameter at the sample point
SymbolValue(symbol) == F(conc[symbol])
ParamValue(name) == F(parameters[name])

\* bi_uni_reversible_hill.py:86-87: symbol -> km parameter, from the links in
\* their order
HillKmRelation ==
    [i \in 1..Len(mech.parameter_reactant_links) |->
        << reactants[mech.parameter_reactant_links[i][2]],
           mech.parameter_reactant_links[i][1] >>]

\* bi_uni_reversible_hill.py:116-119: common_denominator, with the last term
\* as written: 2*p/kmp**h
HillDenominator(s1, s2, p, kms1, kms2, kmp, h) ==
    FSub(FAdd(FAdd(FAdd(F(1),
                        FPow(FAdd(FDiv(s1, kms1), FDiv(p, kmp)), h)),
                   FPow(FAdd(FDiv(s2, kms2), FDiv(p, kmp)), h)),
              FPow(FAdd(FDiv(FMul(FDiv(s1, kms1), s2), kms2), FDiv(p, kmp)), h)),
         FDiv(FMul(F(2), p), FPow(kmp, h)))

\* bi_uni_reversible_hill.py:98-114: the operands and the two nominators
HillTerms ==
    LET keq == ParamValue(<<"k_equilibrium", 0>>)
        vmaxf == ParamValue(<<"vmax_forward", 0>>)
        sym1 == reactants[<<"substrate", 1>>]
        sym2 == reactants[<<"substrate", 2>>]
        symp == reactants[<<"product", 0>>]
        s1 == SymbolValue(sym1)
        s2 == SymbolValue(sym2)
        p == SymbolValue(symp)
        kms1 == ParamValue(Lookup(HillKmRelation, sym1))
        kms2 == ParamValue(Lookup(HillKmRelation, sym2))
        kmp == ParamValue(Lookup(HillKmRelation, symp))
        h == parameters[<<"hill_coefficient", 0>>]
        hill_effect == FPow(FAdd(FDiv(FMul(FDiv(s1, kms1), s2), kms2), FDiv(p, kmp)),
                            h - 1)
    IN  [s1 |-> s1, s2 |-> s2, p |-> p, kms1 |-> kms1, kms2 |-> kms2, kmp |-> kmp,
         h |-> h,
         fwd_nominator |-> FMul(FDiv(FMul(FDiv(FMul(vmaxf, s1), kms1), s2), kms2),
                                hill_effect),
         bwd_nominator |-> FMul(FMul(FDiv(vmaxf, FMul(FMul(keq, kms1), kms2)), p),
                                hill_effect)]

\* bi_uni_reversible_hill.py:116-128: reaction_rates
HillRates ==
    LET t == HillTerms
        common_denominator ==
            HillDenominator(t.s1, t.s2, t.p, t.kms1, t.kms2, t.kmp, t.h)
        forward_rate_expression == FDiv(t.fwd_nominator, common_denominator)
        backward_rate_expression == FDiv(t.bwd_nominator, common_denominator)
    IN  [v_net |-> FSub(forward_rate_expression, backward_rate_expression),
         v_fwd |-> forward_rate_expression,
         v_bwd |-> backward_rate_expression]

\* expressions[symbol] = value on a dictionary: replaces or adds the key
SetItem(d, key, value) == [k \in Keys(d) \cup {key} |-> IF k = key THEN value ELSE d[k]]

\* bi_uni_reversible_hill.py:132-140 and 153-161: for every role of the list,
\* expressions[symbol] = stoich * rate
RECURSIVE Assign(_, _, _)
Assign(expr, roles, rate) ==
    IF roles = <<>> THEN expr
    ELSE Assign(SetItem(expr, reactants[Head(roles)],
                        FMul(F(mech.reactant_stoichiometry[Head(roles)]), rate)),
                Tail(roles), rate)

\* convenience_with_inihibition.py:199-213 and 227-241: for every role of the
\* list, expressions[symbol] += stoich * rate, or = for a new symbol
RECURSIVE Accumulate(_, _, _)
Accumulate(expr, roles, rate) ==
    IF roles = <<>> THEN expr
    ELSE LET s == reactants[Head(roles)]
             term == FMul(F(mech.reactant_stoichiometry[Head(roles)]), rate)
         IN  Accumulate(SetItem(expr, s,
                                IF s \in Keys(expr) THEN FAdd(expr[s], term) ELSE term),
                        Tail(roles), rate)

\* convenience_with_inihibition.py:123-131: symbol -> km or ki parameter,
\* from the links in their order
ConvKmRelation ==
    [i \in 1..Len(mech.parameter_reactant_links) |->
        LET k == mech.parameter_reactant_links[i][1]
            v == mech.parameter_reactant_links[i][2]
        IN  IF v \in DOMAIN reactants THEN <<reactants[v], k>>
            ELSE <<inhibitors[v], k>>]

\* convenience_with_inihibition.py:155-156 and 169-170:
\* 1 + (x/km)**1 + ... + (x/km)**n
RECURSIVE DenominatorTerm(_, _)
DenominatorTerm(x, n) ==
    IF n = 0 THEN F(1)
    ELSE FAdd(DenominatorTerm(x, n - 1), FPow(x, n))

\* convenience_with_inihibition.py:150-161: the loop over the substrates
RECURSIVE SubstrateLoop(_, _)
SubstrateLoop(roles, acc) ==
    IF roles = <<>> THEN acc
    ELSE LET s == SymbolValue(reactants[Head(roles)])
             kms == ParamValue(Lookup(ConvKmRelation, reactants[Head(roles)]))
             stoich == mech.reactant_stoichiometry[Head(roles)]
         IN  SubstrateLoop(Tail(roles),
                 [common_denominator |->
                      FMul(acc.common_denominator,
                           DenominatorTerm(FDiv(s, kms), Abs(stoich))),
                  fwd_nominator |-> FMul(acc.fwd_nominator,
                                         FPow(FDiv(s, kms), Abs(stoich))),
                  bwd_nominator |-> FMul(acc.bwd_nominator,
                                         FPow(kms, -1 * Abs(stoich)))])

\* convenience_with_inihibition.py:163-174: the loop over the products
RECURSIVE ProductLoop(_, _)
ProductLoop(roles, acc) ==
    IF roles = <<>> THEN acc
    ELSE LET p == SymbolValue(reactants[Head(roles)])
             kmp == ParamValue(Lookup(ConvKmRelation, reactants[Head(roles)]))
             stoich == mech.reactant_stoichiometry[Head(roles)]
         IN  ProductLoop(Tail(roles),
                 [common_denominator |->
                      FMul(acc.common_denominator,
                           DenominatorTerm(FDiv(p, kmp), Abs(stoich))),
                  fwd_nominator |-> acc.fwd_nominator,
                  bwd_nominator |-> FMul(acc.bwd_nominator, FPow(p, Abs(stoich)))])

\* convenience_with_inihibition.py:176-180: the loop over the inhibitors
RECURSIVE InhibitorLoop(_, _)
InhibitorLoop(roles, sum) ==
    IF roles = <<>> THEN sum
    ELSE LET i == SymbolValue(inhibitors[Head(roles)])
             kmi == ParamValue(Lookup(ConvKmRelation, inhibitors[Head(roles)]))
         IN  InhibitorLoop(Tail(roles), FAdd(sum, FDiv(i, kmi)))

\* convenience_with_inihibition.py:143-193: reaction_rates
ConvRates ==
    LET keq == ParamValue(<<"k_equilibrium", 0>>)
        vmaxf == ParamValue(<<"vmax_forward", 0>>)
        subs == SubstrateLoop(Select(mech.reactant_list, "substrate"),
                    [common_denominator |-> F(1),
                     fwd_nominator |-> vmaxf,
                     bwd_nominator |-> FDiv(vmaxf, keq)])
        prods == ProductLoop(Select(mech.reactant_list, "product"),
                    [common_denominator |-> F(1),
                     fwd_nominator |-> subs.fwd_nominator,
                     bwd_nominator |-> subs.bwd_nominator])
        common_denominator_inhibitors ==
            InhibitorLoop(Select(mech.inhibitor_list, "inhibitor"), F(0))
        common_denominator ==
            FAdd(FSub(FAdd(subs.common_denominator, prods.common_denominator), F(1)),
                 common_denominator_inhibitors)
        forward_rate_expression == FDiv(prods.fwd_nominator, common_denominator)
        backward_rate_expression == FDiv(prods.bwd_nominator, common_denominator)
    IN  [v_net |-> FSub(forward_rate_expression, backward_rate_expression),
         v_fwd |-> forward_rate_expression,
         v_bwd |-> backward_rate_expression]

IsHill == mech.kind = "BiUniReversibleHill"

\* the substrate and the product roles of the instance, in the order of
\* self.reactants (the order of reactant_list)
Substrates == Select(mech.reactant_list, "substrate")
Products == Select(mech.reactant_list, "product")

\* bi_uni_reversible_hill.py:85-143 and convenience_with_inihibition.py:122-216.
\* (expression_parameters, set from KineticMechanism.get_parameters_from_expression,
\* is not modelled: no operation of the model reads it.)
QssaExpressions(rate_expression) ==
    IF IsHill
    THEN \* bi_uni_reversible_hill.py:130-140
         Assign(Assign(EmptyDict, Substrates, rate_expression), Products, rate_expression)
    ELSE \* convenience_with_inihibition.py:195-213
         Accumulate(Accumulate(EmptyDict, Substrates, rate_expression),
                    Products, rate_expression)

get_qssa_rate_expression ==
    /\ mech # NoAttr
    /\ reaction_rates' = IF IsHill THEN HillRates ELSE ConvRates
    /\ expressions' = QssaExpressions(reaction_rates'.v_net)
    /\ ret' = Returned("get_qssa_rate_expression", None, None)
    /\ UNCHANGED <<mech, reactants, inhibitors, parameters, conc>>

\* bi_uni_reversible_hill.py:145-161
Hill_update_qssa_rate_expression ==
    /\ IsHill
    /\ IF reaction_rates = NoAttr \/ expressions = NoAttr
       THEN /\ ret' = Raised("update_qssa_rate_expression", None, "AttributeError")
            /\ UNCHANGED expressions
       ELSE /\ expressions' = Assign(Assign(expressions, Substrates, reaction_rates.v_net),
                                     Products, reaction_rates.v_net)
            /\ ret' = Returned("update_qssa_rate_expression", None, None)
    /\ UNCHANGED <<mech, reactants, inhibitors, parameters, conc, reaction_rates>>

\* convenience_with_inihibition.py:218-243: the local dictionary is stored in
\* self.expressions inside the loop over the products (line 243); stored in
\* its first iteration, it is the object the later iterations fill
Conv_update_qssa_rate_expression ==
    /\ mech # NoAttr /\ ~IsHill
    /\ IF Substrates \o Products # <<>> /\ reaction_rates = NoAttr
       THEN /\ ret' = Raised("update_qssa_rate_expression", None, "AttributeError")
            /\ UNCHANGED expressions
       ELSE /\ expressions' =
                 IF Products = <<>> THEN expressions
                 ELSE Accumulate(Accumulate(EmptyDict, Substrates, reaction_rates.v_net),
                                 Products, reaction_rates.v_net)
            /\ ret' = Returned("update_qssa_rate_expression", None, None)
    /\ UNCHANGED <<mech, reactants, inhibitors, parameters, conc, reaction_rates>>

\* reaction_rates['v_net'] is replaced by a re-derived expression (after a
\* re-parametrization), which update_qssa_rate_expression then propagates
replace_v_net(v) ==
    /\ mech # NoAttr
    /\ reaction_rates # NoAttr
    /\ reaction_rates.v_net # v
    /\ reaction_rates' = [reaction_rates EXCEPT !.v_net = v]
    /\ ret' = Returned("replace_v_net", v, None)
    /\ UNCHANGED <<mech, reactants, inhibitors, parameters, conc, expressions>>

-----------------------------------------------------------------------------
(* make_convenience_with_inhibition and the registry of KineticMechanism   *)
(* subclasses.  A string is the sequence of its pieces.                    *)

\* one coefficient as stringify_stoichiometry writes it
CoefficientString(s) ==
    CASE s = -3 -> "m3" [] s = -2 -> "m2" [] s = -1 -> "m1" [] s = 0 -> "0"
      [] s = 1 -> "1" [] s = 2 -> "2" [] s = 3 -> "3"

RECURSIVE JoinCoefficients(_)
JoinCoefficients(list) ==
    IF list = <<>> THEN <<>>
    ELSE IF Len(list) = 1 THEN <<CoefficientString(list[1])>>
    ELSE <<CoefficientString(list[1]), "_">> \o JoinCoefficients(Tail(list))

\* mechanisms/utils.py: the canonical string of a stoichiometry and of the
\* inhibitors
stringify_stoichiometry(stoichiometry, inihibitors) ==
    JoinCoefficients(stoichiometry) \o <<"_i_">> \o JoinCoefficients(inihibitors)

\* utils/general.py: class name -> class, over the subclasses of
\* KineticMechanism in the order of their creation
make_subclasses_dict(classes) ==
    [i \in 1..Len(classes) |-> <<classes[i].name, classes[i].id>>]

HasKey(pairs, key) == \E i \in 1..Len(pairs) : pairs[i][1] = key

\* convenience_with_inihibition.py:49-51
NewClassName(stoichiometry, inihbitor_stoichiometry) ==
    <<"Convenience">> \o <<"_">>
        \o stringify_stoichiometry(stoichiometry, inihbitor_stoichiometry)

\* convenience_with_inihibition.py:65-66 and 255: __name__ of the class the
\* class statement creates, with the suffix appended
GeneratedClassName(stoichiometry, inihbitor_stoichiometry) ==
    <<"Convenience", "Inhibited">> \o <<"_">>
        \o stringify_stoichiometry(stoichiometry, inihbitor_stoichiometry)

\* classes generated in one behaviour
MaxClasses == 3

\* convenience_with_inihibition.py:41-257
make_convenience_with_inhibition(stoichiometry, inihbitor_stoichiometry) ==
    LET ALL_MECHANISM_SUBCLASSES == make_subclasses_dict(subclasses)
        new_class_name == NewClassName(stoichiometry, inihbitor_stoichiometry)
        args == <<stoichiometry, inihbitor_stoichiometry>>
        new_class ==
            [id |-> Len(subclasses) + 1,
             name |-> GeneratedClassName(stoichiometry, inihbitor_stoichiometry),
             attributes |-> ConvenienceInhibited(stoichiometry, inihbitor_stoichiometry)]
    IN  IF HasKey(ALL_MECHANISM_SUBCLASSES, new_class_name)
        THEN /\ ret' = Returned("make_convenience_with_inhibition", args,
                                Lookup(ALL_MECHANISM_SUBCLASSES, new_class_name))
             /\ made' = made \cup {<<args, Lookup(ALL_MECHANISM_SUBCLASSES, new_class_name)>>}
             /\ UNCHANGED subclasses
        ELSE /\ Len(subclasses) <= MaxClasses
             /\ subclasses' = Append(subclasses, new_class)
             /\ ret' = Returned("make_convenience_with_inhibition", args, new_class.id)
             /\ made' = made \cup {<<args, new_class.id>>}

\* the mechanism and factory variables, unused by Spec
MechIdle ==
    /\ mech = NoAttr
    /\ reactants = NoAttr
    /\ inhibitors = NoAttr
    /\ parameters = NoAttr
    /\ conc = NoAttr
    /\ reaction_rates = NoAttr
    /\ expressions = NoAttr

FacIdle ==
    /\ subclasses = <<>>
    /\ made = {}

-----------------------------------------------------------------------------
(* Spec: a KineticModel built empty, then any sequence of add_reaction,    *)
(* add_boundary and solve_ode calls.  The integrator advances by 1 per     *)
(* call or fails; SpecLoop below explores the integrator.                  *)

Init == KMInit(<<>>, <<>>) /\ MechIdle /\ FacIdle

Next ==
    \/ \E reaction \in ReactionPool :
          add_reaction(reaction) /\ UNCHANGED <<mechvars, facvars>>
    \/ \E boundary \in BoundaryPool :
          add_boundary(boundary) /\ UNCHANGED <<mechvars, facvars>>
    \/ \E sim_type \in SimTypes :
          solve_ode_begin(sim_type, 1, 0) /\ UNCHANGED <<mechvars, facvars>>
    \/ loop_iteration(1, 0, TRUE) /\ UNCHANGED <<mechvars, facvars>>
    \/ loop_iteration(0, 0, FALSE) /\ UNCHANGED <<mechvars, facvars>>
    \/ loop_exit /\ UNCHANGED <<mechvars, facvars>>

Spec == Init /\ [][Next]_vars

-----------------------------------------------------------------------------
(* SpecLoop: solve_ode calls on a model constructed with one reaction      *)
(* (KineticModel(reactions = [r]), kinmodel.py:44-52), against every       *)
(* integrator: each integrate call either succeeds and advances t by       *)
(* 1..MaxDt, or fails having advanced by 0..MaxDt-1, and reports any y.    *)

LoopInit ==
    /\ \E r \in ReactionPool : KMInit(<<r>>, <<>>)
    /\ MechIdle /\ FacIdle

LoopNext ==
    \/ \E t1 \in 1..MaxT1, y0 \in 0..MaxY :
          solve_ode_begin("QSSA", t1, y0) /\ UNCHANGED <<mechvars, facvars>>
    \/ \E dt \in 1..MaxDt, y \in 0..MaxY :
          loop_iteration(dt, y, TRUE) /\ UNCHANGED <<mechvars, facvars>>
    \/ \E dt \in 0..(MaxDt - 1), y \in 0..MaxY :
          loop_iteration(dt, y, FALSE) /\ UNCHANGED <<mechvars, facvars>>
    \/ loop_exit /\ UNCHANGED <<mechvars, facvars>>

SpecLoop == LoopInit /\ [][LoopNext]_vars

-----------------------------------------------------------------------------
(* SpecMech: one mechanism instance, of BiUniReversibleHill or of a         *)
(* generated ConvenienceInhibited, with its reactants and inhibitors bound  *)
(* to symbols and a sample point for the symbols and the parameters.        *)

\* largest value of a parameter at the sample point
MaxParam == 2
\* largest value of a symbol at the sample point
MaxConc == 2

StoichPool == { <<-1, 1>>, <<-1, -1>>, <<-2, 1>>, <<2>>, <<-1, -1, 1>> }
InhibPool == { <<>>, <<1>> }
VNetPool == { F(3), Frac(-1, 2) }

\* the classes instantiated: the Hill mechanism, every shape of StoichPool
\* without inhibitor, and the two-role shapes with one inhibitor
MechClasses ==
    {BiUniReversibleHill}
    \cup {ConvenienceInhibited(st, <<>>) : st \in StoichPool}
    \cup {ConvenienceInhibited(st, <<1>>) : st \in {<<-1, 1>>, <<-1, -1>>}}

\* Symbols are interchangeable, so only one binding per pattern of shared
\* symbols is taken: each role, in the order of the lists, is bound to a symbol
\* of an earlier role or to the first symbol not yet used.  The sample point
\* of a symbol bound to no role is 1.
SymbolIndex(x) == CASE x = "A" -> 1 [] x = "B" -> 2 [] x = "C" -> 3

CanonicalBinding(rs, is) ==
    LET roles == mech.reactant_list \o mech.inhibitor_list
        bound(i) == IF roles[i] \in DOMAIN rs THEN rs[roles[i]] ELSE is[roles[i]]
    IN  \A i \in 1..Len(roles) :
            \/ SymbolIndex(bound(i)) = 1
            \/ \E j \in 1..(i - 1) : SymbolIndex(bound(j)) >= SymbolIndex(bound(i)) - 1

MechInit ==
    /\ mech \in MechClasses
    /\ reactants \in [Range(mech.reactant_list) -> Symbols]
    /\ inhibitors \in [Range(mech.inhibitor_list) -> Symbols]
    /\ CanonicalBinding(reactants, inhibitors)
    /\ parameters \in [mech.parameter_list -> 1..MaxParam]
    \* vmax_backward occurs in no rate expression
    /\ <<"vmax_backward", 0>> \in mech.parameter_list =>
           parameters[<<"vmax_backward", 0>>] = 1
    /\ conc \in [Symbols -> 1..MaxConc]
    /\ \A x \in Symbols :
          x \notin {reactants[r] : r \in DOMAIN reactants}
                     \cup {inhibitors[r] : r \in DOMAIN inhibitors}
            => conc[x] = 1
    /\ reaction_rates = NoAttr
    /\ expressions = NoAttr
    /\ ret = Returned("__init__", None, None)

KMIdle ==
    /\ reactions = <<>> /\ boundaries = <<>> /\ _modifed = TRUE
    /\ ode_fun = NoAttr /\ solver = NoAttr /\ nbuilds = 0 /\ bcalls = <<>>
    /\ pc = "idle" /\ time_int = <<0, 0>> /\ t_sol = <<>> /\ y_sol = <<>>

InitMech == MechInit /\ KMIdle /\ FacIdle

NextMech ==
    \/ get_qssa_rate_expression /\ UNCHANGED <<kmvars, facvars>>
    \/ Hill_update_qssa_rate_expression /\ UNCHANGED <<kmvars, facvars>>
    \/ Conv_update_qssa_rate_expression /\ UNCHANGED <<kmvars, facvars>>
    \/ \E v \in VNetPool : replace_v_net(v) /\ UNCHANGED <<kmvars, facvars>>

SpecMech == InitMech /\ [][NextMech]_vars

-----------------------------------------------------------------------------
(* SpecFactory: calls of make_convenience_with_inhibition, after the       *)
(* import of bi_uni_reversible_hill has created BiUniReversibleHill.       *)

InitFactory ==
    /\ subclasses = << [id |-> 1, name |-> <<"BiUniReversibleHill">>,
                        attributes |-> BiUniReversibleHill] >>
    /\ made = {}
    /\ ret = Returned("import", None, None)
    /\ KMIdle /\ MechIdle

NextFactory ==
    \E stoichiometry \in StoichPool, inihbitor_stoichiometry \in InhibPool :
        /\ make_convenience_with_inhibition(stoichiometry, inihbitor_stoichiometry)
        /\ UNCHANGED <<kmvars, mechvars>>

SpecFactory == InitFactory /\ [][NextFactory]_vars

-----------------------------------------------------------------------------
(* Properties of the mechanisms, checked under SpecMech and SpecFactory    *)

\* C6 (as claimed): two calls of make_convenience_with_inhibition with equal
\* arguments return the same class object.
C6_SameArgumentsSameClass ==
    \A a \in made, b \in made : a[1] = b[1] => a[2] = b[2]

\* the symbols bound to the substrate and product roles
BoundSymbols == {reactants[r] : r \in DOMAIN reactants}

RECURSIVE SumStoichiometry(_)
SumStoichiometry(roles) ==
    IF roles = {} THEN 0
    ELSE LET r == CHOOSE x \in roles : TRUE
         IN  mech.reactant_stoichiometry[r] + SumStoichiometry(roles \ {r})

\* the expressions claimed: for every bound symbol, v_net times the sum of
\* the stoichiometries of the roles bound to it
SummedExpressions(v_net) ==
    [x \in BoundSymbols |->
        FMul(F(SumStoichiometry({r \in DOMAIN reactants : reactants[r] = x})), v_net)]

\* C7 (as claimed): after get_qssa_rate_expression, expressions holds for
\* every bound symbol v_net times the summed stoichiometry of its roles.
C7_ContributionsSummed ==
    ret.op = "get_qssa_rate_expression" =>
        expressions = SummedExpressions(reaction_rates.v_net)

\* C8 (as claimed): after update_qssa_rate_expression, expressions is the
\* mapping get_qssa_rate_expression produces for the current v_net; nothing
\* derived from an earlier v_net is left.
C8_UpdateConsistentWithGet ==
    (ret.op = "update_qssa_rate_expression" /\ ret.out = "return") =>
        /\ expressions = QssaExpressions(reaction_rates.v_net)
        /\ Keys(expressions) = BoundSymbols

\* the denominator of the reversible Hill rate law with the correction term
\* 2*(p/kmp)**h
C9_Denominator(t) ==
    FSub(FAdd(FAdd(FAdd(F(1),
                        FPow(FAdd(FDiv(t.s1, t.kms1), FDiv(t.p, t.kmp)), t.h)),
                   FPow(FAdd(FDiv(t.s2, t.kms2), FDiv(t.p, t.kmp)), t.h)),
              FPow(FAdd(FMul(FDiv(t.s1, t.kms1), FDiv(t.s2, t.kms2)),
                        FDiv(t.p, t.kmp)), t.h)),
         FMul(F(2), FPow(FDiv(t.p, t.kmp), t.h)))

\* C9 (as claimed): BiUniReversibleHill.get_qssa_rate_expression yields
\* v_fwd = fwd/denom, v_bwd = bwd/denom and v_net = v_fwd - v_bwd with the
\* correction term of denom being 2*(p/kmp)**h (stated for the instances
\* whose three reactants are distinct symbols).
C9_HillRateLaw ==
    (ret.op = "get_qssa_rate_expression" /\ IsHill /\ Cardinality(BoundSymbols) = 3) =>
        LET t == HillTerms
            denom == C9_Denominator(t)
        IN  /\ reaction_rates.v_fwd = FDiv(t.fwd_nominator, denom)
            /\ reaction_rates.v_bwd = FDiv(t.bwd_nominator, denom)
            /\ reaction_rates.v_net = FSub(reaction_rates.v_fwd, reaction_rates.v_bwd)

-----------------------------------------------------------------------------
(* Properties of KineticModel, checked under Spec                          *)

\* the expression dictionary reaction r contributes for sim_type
ExprOf(r, sim_type) == IF sim_type = "QSSA" THEN r.qssa ELSE r.full

\* the signed contribution of reaction r to species v, 0 when r lacks v
Contribution(r, sim_type, v) ==
    IF v \in Keys(ExprOf(r, sim_type)) THEN ExprOf(r, sim_type)[v] ELSE 0

RECURSIVE SumOver(_, _, _, _)
SumOver(idx, rs, sim_type, v) ==
    IF idx = {} THEN 0
    ELSE LET i == CHOOSE j \in idx : TRUE
         IN  Contribution(rs[i], sim_type, v) + SumOver(idx \ {i}, rs, sim_type, v)

\* the mass balance of the reactions rs: every species of any reaction, with
\* the sum of the contributions of the reactions that contain it
ExpectedBalance(rs, sim_type) ==
    [v \in {w \in Species : \E i \in 1..Len(rs) : w \in Keys(ExprOf(rs[i], sim_type))}
        |-> SumOver({i \in 1..Len(rs) : v \in Keys(ExprOf(rs[i], sim_type))},
                    rs, sim_type, v)]

\* a step in which make_ode_fun returned an evaluator
BuildStep == nbuilds' = nbuilds + 1

\* the mapping the latest build had aggregated before any boundary acted
Aggregated(fun, calls) == IF calls = <<>> THEN fun.expr ELSE calls[1].arg

\* C1 (as claimed): whenever a solve_ode call integrates, the solver's
\* evaluator is one built from the model's current reactions: its variables
\* and parameters are those of all the reactions the model holds now.
C1_SolveUsesCurrentReactions ==
    pc = "loop" =>
        \E sim_type \in {"QSSA", "full"} :
            LET built == make_ode_fun(sim_type, reactions, <<>>)
            IN  /\ built.raised = None
                /\ solver.f.variables = built.variables
                /\ solver.f.all_param = built.all_param

\* C2: every build of make_ode_fun aggregates, before the boundaries act, a
\* mapping whose keys are exactly the species of the reactions and whose
\* values are the sums of the contributions of the reactions containing them.
C2_MassBalanceSums ==
    [][BuildStep =>
        /\ ode_fun'.variables = Keys(ExpectedBalance(reactions, ret'.arg.sim_type))
        /\ Keys(ode_fun'.expr) = ode_fun'.variables
        /\ Aggregated(ode_fun', bcalls') =
              ExpectedBalance(reactions, ret'.arg.sim_type)]_vars

\* C2 witness: an evaluator built, without boundaries, from two reactions that
\* share species B, holding for B the sum of both contributions
C2_Witness ==
    /\ ode_fun # NoAttr /\ ~_modifed /\ boundaries = <<>>
    /\ Len(reactions) = 2
    /\ ret.arg.sim_type = "QSSA"
    /\ "B" \in Keys(reactions[1].qssa) \cap Keys(reactions[2].qssa)
    /\ reactions[2].qssa["B"] # 0 /\ reactions[1].qssa["B"] # 0
    /\ ode_fun.expr["B"] = reactions[1].qssa["B"] + reactions[2].qssa["B"]

C10_AddReaction ==
    [][ret'.op = "add_reaction" =>
        IF HasReaction(reactions, ret'.arg.name)
        THEN /\ ret'.out = "raise"
             /\ reactions' = reactions
             /\ _modifed' = _modifed
             /\ ode_fun' = ode_fun
        ELSE /\ ret'.out = "return"
             /\ reactions' = Append(reactions, ret'.arg)
             /\ _modifed'
             /\ ode_fun' = ode_fun]_vars

\* C10 witness: a duplicate name was rejected on a model that holds a cached
\* evaluator and is not dirty, the stored reaction being another one
C10_Witness ==
    /\ ret.op = "add_reaction" /\ ret.out = "raise"
    /\ ode_fun # NoAttr /\ ~_modifed
    /\ Len(reactions) = 2
    /\ \E i \in 1..Len(reactions) :
          reactions[i].name = ret.arg.name /\ reactions[i] # ret.arg

\* a step that is a call of KineticModel.solve_ode
SolveStep == pc = "idle" /\ ret'.op = "solve_ode"

\* a solve_ode call that invoked make_ode_fun: it returned an evaluator or
\* raised one of its exceptions
MakeOdeFunInvoked ==
    \/ BuildStep
    \/ /\ ret'.out = "raise"
       /\ ret'.val \in {"NotImplementedError", "UnboundLocalError", "ValueError"}

\* C11: solve_ode invokes make_ode_fun only when the model is dirty or holds
\* no evaluator; a call on a model that holds an evaluator and has had no
\* add_reaction since it was built integrates with that same evaluator
\* object and builds nothing.
C11_ReusesEvaluator ==
    [][SolveStep =>
        /\ MakeOdeFunInvoked => (_modifed \/ ode_fun = NoAttr)
        /\ (~_modifed /\ ode_fun # NoAttr) =>
              /\ ret'.out = "running"
              /\ ode_fun' = ode_fun
              /\ nbuilds' = nbuilds
              /\ solver'.f = ode_fun]_vars

\* C11 witness: a solve_ode call integrating on a clean model with the
\* evaluator of an earlier call: a boundary was registered after the only
\* build, which therefore belongs to a call that had returned before
C11_Witness ==
    /\ pc = "loop" /\ ~_modifed
    /\ nbuilds = 1 /\ ode_fun.id = 1
    /\ solver.f = ode_fun
    /\ Len(bcalls) < Len(boundaries)

\* C12 (as claimed): whenever a solve_ode call integrates on a model that
\* has had no add_reaction since its evaluator was built, make_ode_fun
\* supports the sim_type of that call and the solver's evaluator is the one
\* make_ode_fun builds for it: it has those variables and parameters.
C12_EvaluatorMatchesSimType ==
    (pc = "loop" /\ ~_modifed) =>
        LET built == make_ode_fun(ret.arg.sim_type, reactions, <<>>)
        IN  /\ built.raised = None
            /\ solver.f.variables = built.variables
            /\ solver.f.all_param = built.all_param

-----------------------------------------------------------------------------
(* Properties of the integration loop, checked under SpecLoop              *)

\* a step of the loop that called solver.integrate
IntegrateStep == pc = "loop" /\ pc' = "loop" /\ Len(t_sol') = Len(t_sol) + 1

\* C4 (as claimed): a solve_ode call that returns hands back, with the
\* trajectory, a status flag that tells a failed integration from a completed
\* one.
C4_FailureIsFlagged ==
    (ret.op = "solve_ode" /\ ret.out = "return") =>
        /\ "status" \in DOMAIN ret.val
        /\ ret.val.status = solver.ok

\* C5 (as claimed): the trajectory starts with (t0, y0), every integrate call
\* appends the (t, y) it reported, and integrate is only called while the
\* integrator has reported neither t >= t1 nor a failure.
C5_NoCallOnceReached ==
    [][IntegrateStep =>
        /\ t_sol[1] = time_int[1]
        /\ t_sol' = Append(t_sol, solver'.t) /\ y_sol' = Append(y_sol, solver'.y)
        /\ solver.t < time_int[2]
        /\ solver.ok]_vars

====
